---------------------------- MODULE Spec2Model ----------------------------
(***************************************************************************)
(* Model of nlrb_data/scraper.py: the URL builder, the page-count          *)
(* extractor, the listing parser, the case-list orchestrator and the       *)
(* case-detail fetcher.                                                     *)
(*                                                                         *)
(* Python strings are sequences of one-character strings, so that find,    *)
(* rfind, slicing, strip, quoting and formatting are computed character by *)
(* character as the code computes them.  Python's None is the empty tuple  *)
(* and a present optional value v is the one-element tuple <<v>>.          *)
(***************************************************************************)
EXTENDS Integers, Sequences, FiniteSets, TLC

VARIABLES
    op,               \* the entry point the caller invoked
    args,             \* its arguments
    pc,               \* position inside the running function
    ret,              \* what the caller gets: a returned value or a raised exception
    session,          \* local `session` of get_case_list / get_case
    gpc_session,      \* local `session` of get_page_count
    created,          \* number of requests.Session() objects constructed so far
    trace,            \* history of session.get(...) and time.sleep(...) calls
    buffer,           \* response.text held between a fetch and its parse
    max_page_count,   \* get_case_list local
    page_number,      \* get_case_list loop variable
    cases,            \* get_case_list accumulator
    case_docket_df,   \* get_case local
    case_party_df,    \* get_case local
    allegation_list,  \* get_case local
    fields            \* get_case locals case_number .. case_close

vars == <<op, args, pc, ret, session, gpc_session, created, trace, buffer,
          max_page_count, page_number, cases, case_docket_df, case_party_df,
          allegation_list, fields>>

(***************************************************************************)
(* Bounds of the model.                                                    *)
(***************************************************************************)
MaxSegs == 3        \* a response body is at most this many text segments
MaxPages == 2       \* largest page count the orchestrator is run with
MaxItems == 2       \* list items per listing page
MaxLabels == 2      \* labelled spans per list item

(***************************************************************************)
(* Python values.                                                          *)
(***************************************************************************)
None == <<>>
Some(v) == <<v>>
\* truthiness of an optional string / an optional integer / an optional object
TruthyStr(opt) == opt # None /\ opt[1] # <<>>
TruthyInt(opt) == opt # None /\ opt[1] # 0
TruthyObj(opt) == opt # None

Returned(v) == [kind |-> "return", val |-> v]
Raised(e) == [kind |-> "raise", val |-> e]
NoRet == [kind |-> "running", val |-> "-"]

RECURSIVE Concat(_)
Concat(ss) == IF ss = <<>> THEN <<>> ELSE Head(ss) \o Concat(Tail(ss))

Digits == <<"0", "1", "2", "3", "4", "5", "6", "7", "8", "9">>
string_digits == {Digits[i] : i \in 1..10}
DigitValue(c) == (CHOOSE i \in 1..10 : Digits[i] = c) - 1

\* str(n) for n >= 0
RECURSIVE str(_)
str(n) == IF n < 10 THEN <<Digits[n + 1]>> ELSE str(n \div 10) \o <<Digits[(n % 10) + 1]>>

\* int(s): the decimal value of a non-empty run of digits, ValueError otherwise
RECURSIVE DecimalValue(_)
DecimalValue(s) == IF s = <<>> THEN 0
                   ELSE 10 * DecimalValue(SubSeq(s, 1, Len(s) - 1)) + DigitValue(s[Len(s)])
int(s) == IF s # <<>> /\ \A i \in 1..Len(s) : s[i] \in string_digits
          THEN Returned(DecimalValue(s)) ELSE Raised("ValueError")

\* s[i:j] with Python's slice semantics over 0-based positions
Clamp(i, n) == IF i < 0 THEN (IF i + n < 0 THEN 0 ELSE i + n) ELSE (IF i > n THEN n ELSE i)
Slice(s, i, j) == SubSeq(s, Clamp(i, Len(s)) + 1, Clamp(j, Len(s)))
SliceFrom(s, i) == Slice(s, i, Len(s))

\* the 0-based positions at which sub occurs in s
Occurrences(s, sub) ==
    {p \in 0..(Len(s) - Len(sub)) : SubSeq(s, p + 1, p + Len(sub)) = sub}
Max(S) == CHOOSE x \in S : \A y \in S : y <= x
Min(S) == CHOOSE x \in S : \A y \in S : x <= y
find(s, sub) == IF Occurrences(s, sub) = {} THEN -1 ELSE Min(Occurrences(s, sub))
rfind(s, sub) == IF Occurrences(s, sub) = {} THEN -1 ELSE Max(Occurrences(s, sub))

Whitespace == {" ", "\n", "\t"}
RECURSIVE lstrip(_)
lstrip(s) == IF s # <<>> /\ Head(s) \in Whitespace THEN lstrip(Tail(s)) ELSE s
RECURSIVE rstrip(_)
rstrip(s) == IF s # <<>> /\ s[Len(s)] \in Whitespace
             THEN rstrip(SubSeq(s, 1, Len(s) - 1)) ELSE s
strip(s) == rstrip(lstrip(s))

(***************************************************************************)
(* Constants of the module.                                                *)
(***************************************************************************)
BASE_SEARCH_URL == <<"h","t","t","p","s",":","/","/","w","w","w",".","n","l","r","b",
                     ".","g","o","v","/","s","e","a","r","c","h","/","c","a","s","e","s">>
BASE_URL == <<"h","t","t","p","s",":","/","/","w","w","w",".","n","l","r","b",
              ".","g","o","v">>
SLEEP_INTERVAL == 1

(***************************************************************************)
(* get_case_list_url                                                       *)
(***************************************************************************)
\* urllib.parse.quote with its default safe="/": letters, digits and "_.-~/"
\* are kept, every other character becomes %XX
QuoteSafe == string_digits \cup {"A", "B", "C", "a", "b", "c", "_", ".", "-", "~", "/"}
PercentCode(c) == CASE c = " " -> <<"%", "2", "0">>
                    [] c = "&" -> <<"%", "2", "6">>
                    [] c = "?" -> <<"%", "3", "F">>
                    [] c = ":" -> <<"%", "3", "A">>
                    [] c = "=" -> <<"%", "3", "D">>
quote(s) == Concat([i \in 1..Len(s) |-> IF s[i] \in QuoteSafe THEN <<s[i]>>
                                        ELSE PercentCode(s[i])])

\* n zero-padded to w digits
RECURSIVE ZeroPad(_, _)
ZeroPad(n, w) == IF Len(str(n)) >= w THEN str(n)
                 ELSE <<"0">> \o ZeroPad(n, w - 1)

\* the format without zero padding ("%-m/%-d/%Y"), which strftime must differ from
StrftimeNoPad(d) == str(d.month) \o <<"/">> \o str(d.day) \o <<"/">> \o str(d.year)

\* date.strftime("%m/%d/%Y")
strftime(d) == ZeroPad(d.month, 2) \o <<"/">> \o ZeroPad(d.day, 2) \o <<"/">>
               \o ZeroPad(d.year, 4)

DateFilter(dates) ==
    <<"&","f","[">> \o str(0) \o <<"]","=","d","a","t","e","%","3","A">>
    \o strftime(dates[1]) \o <<"%","2","0","t","o","%","2","0">> \o strftime(dates[2])

PageParam(n) == <<"&","p","a","g","e","=">> \o str(n)

get_case_list_url(dates, company, page) ==
    BASE_SEARCH_URL \o <<"/">>
    \o (IF TruthyStr(company) THEN quote(company[1]) ELSE <<>>)
    \o <<"?">>
    \o (IF TruthyObj(dates) THEN DateFilter(dates[1]) ELSE <<>>)
    \o (IF TruthyInt(page) THEN PageParam(page[1]) ELSE <<>>)

(***************************************************************************)
(* get_page_count: the scan of the response text                           *)
(***************************************************************************)
PAGE_MARKER == <<"?","p","a","g","e","=">>

\* buffer[pos] over 0-based positions: IndexError past the end
HasIndex(buf, pos) == pos < Len(buf)

\* the while loop of lines 87-90: the position of the first non-digit at or
\* after pos1, or -1 when buffer[pos1] is evaluated past the end (IndexError)
RECURSIVE ScanDigits(_, _)
ScanDigits(buf, pos1) ==
    IF ~HasIndex(buf, pos1) THEN -1
    ELSE IF buf[pos1 + 1] \in string_digits THEN ScanDigits(buf, pos1 + 1)
    ELSE pos1

LastMarker(buf) == rfind(buf, PAGE_MARKER)

\* lines 79-93
ScanPageCount(buf) ==
    LET pos0 == LastMarker(buf) IN
    IF pos0 = -1 THEN Returned(1)
    ELSE LET start == pos0 + 6
             pos1 == ScanDigits(buf, start) IN
         IF pos1 = -1 THEN Raised("IndexError")
         ELSE int(Slice(buf, start, pos1))

(***************************************************************************)
(* parse_case_list_li and parse_case_list                                  *)
(*                                                                         *)
(* A list item is [title, labels]: title is the element of class "title"   *)
(* if the item has one, as [text, a] with a the href of its link if it has *)
(* a link; labels are the spans of class "label" in document order, each   *)
(* [text, tail]: the span's own text and the rest of its parent's text.    *)
(***************************************************************************)
EmptyDict == [k \in {} |-> <<>>]
Put(d, k, v) == [x \in (DOMAIN d) \cup {k} |-> IF x = k THEN v ELSE d[x]]

K_title == <<"t","i","t","l","e">>
K_url == <<"u","r","l">>
K_status == <<"s","t","a","t","u","s">>
K_status_type == <<"s","t","a","t","u","s","_","t","y","p","e">>
K_status_date == <<"s","t","a","t","u","s","_","d","a","t","e">>
K_region_assigned == <<"r","e","g","i","o","n","_","a","s","s","i","g","n","e","d">>
K_region_number == <<"r","e","g","i","o","n","_","n","u","m","b","e","r">>
K_region_city == <<"r","e","g","i","o","n","_","c","i","t","y">>

Upper == <<"A", "B", "C", "N", "O", "R", "S", "Y">>
Lower == <<"a", "b", "c", "n", "o", "r", "s", "y">>
lower_char(c) == IF \E i \in 1..Len(Upper) : Upper[i] = c
                 THEN Lower[CHOOSE i \in 1..Len(Upper) : Upper[i] = c] ELSE c
lower(s) == [i \in 1..Len(s) |-> lower_char(s[i])]

\* s.replace(old, new) for a one-character old
replace(s, old, new) == Concat([i \in 1..Len(s) |-> IF s[i] = old THEN new ELSE <<s[i]>>])

\* s.split(":", 1).pop(): the text after the first colon, or all of it
AfterFirstColon(s) == IF find(s, <<":">>) = -1 THEN s ELSE SliceFrom(s, find(s, <<":">>) + 1)

\* line 113
LabelKey(label) == lower(strip(replace(replace(label.text, ":", <<>>), " ", <<"_">>)))

\* lines 116-117: the parent's text is the span's text followed by the tail
LabelValue(label) == strip(AfterFirstColon(label.text \o label.tail))

\* lines 111-118
RECURSIVE CollectLabels(_, _)
CollectLabels(d, labels) ==
    IF labels = <<>> THEN d
    ELSE CollectLabels(Put(d, LabelKey(Head(labels)), LabelValue(Head(labels))),
                       Tail(labels))

\* dateutil.parser.parse(s).date() on the texts the model feeds it: a text
\* of the form MM/DD/YYYY is that date, any other text is a ValueError
IsDigitAt(s, i) == s[i] \in string_digits
dateutil_parse(s0) ==
    LET s == strip(s0) IN
    IF /\ Len(s) = 10
       /\ \A i \in {1, 2, 4, 5, 7, 8, 9, 10} : IsDigitAt(s, i)
       /\ s[3] = "/" /\ s[6] = "/"
    THEN Returned([year |-> DecimalValue(SubSeq(s, 7, 10)),
                   month |-> DecimalValue(SubSeq(s, 1, 2)),
                   day |-> DecimalValue(SubSeq(s, 4, 5))])
    ELSE Raised("ValueError")

\* lines 121-126; the result is the dict, or the exception of the date parse
AugmentStatus(d) ==
    IF K_status \notin DOMAIN d THEN Returned(d)
    ELSE LET pos0 == rfind(d[K_status], <<" ","o","n"," ">>) IN
         IF pos0 > 0
         THEN LET date == dateutil_parse(SliceFrom(d[K_status], pos0 + 4)) IN
              IF date.kind = "raise" THEN date
              ELSE Returned(Put(Put(d, K_status_type, strip(Slice(d[K_status], 0, pos0))),
                                K_status_date, date.val))
         ELSE Returned(d)

\* lines 129-133
AugmentRegion(d) ==
    IF K_region_assigned \notin DOMAIN d THEN d
    ELSE LET pos0 == find(d[K_region_assigned], <<",">>) IN
         Put(Put(d, K_region_number, strip(Slice(d[K_region_assigned], 0, pos0))),
             K_region_city, strip(SliceFrom(d[K_region_assigned], pos0 + 1)))

\* lines 96-135
parse_case_list_li(li) ==
    IF li.title = None THEN Raised("IndexError")          \* find_class("title").pop()
    ELSE IF li.title[1].a = None THEN Raised("IndexError") \* xpath(".//a").pop()
    ELSE LET d0 == Put(Put(EmptyDict, K_title, strip(li.title[1].text)),
                       K_url, li.title[1].a[1])
             d1 == CollectLabels(d0, li.labels)
             d2 == AugmentStatus(d1) IN
         IF d2.kind = "raise" THEN d2 ELSE Returned(AugmentRegion(d2.val))

\* lines 138-152: the items of the document in order; the first item that
\* raises ends the parse with its exception
RECURSIVE parse_case_list(_)
parse_case_list(lis) ==
    IF lis = <<>> THEN Returned(<<>>)
    ELSE LET first == parse_case_list_li(Head(lis)) IN
         IF first.kind = "raise" THEN first
         ELSE LET rest == parse_case_list(Tail(lis)) IN
              IF rest.kind = "raise" THEN rest
              ELSE Returned(<<first.val>> \o rest.val)

(***************************************************************************)
(* Inputs: what the caller passes and what the site answers.               *)
(***************************************************************************)
\* fragments of pagination markup a response text is made of
Segments == {PAGE_MARKER, PAGE_MARKER \o <<"1", "&">>, <<"0">>, <<"2">>, <<"4">>, <<"&">>}
RECURSIVE SegTexts(_)
SegTexts(n) == IF n = 0 THEN {<<>>}
               ELSE LET S == SegTexts(n - 1) IN S \cup {s \o g : s \in S, g \in Segments}
PagerTexts == SegTexts(MaxSegs)

RECURSIVE SeqsUpTo(_, _)
SeqsUpTo(S, n) == IF n = 0 THEN {<<>>}
                  ELSE LET R == SeqsUpTo(S, n - 1) IN R \cup {Append(r, x) : r \in R, x \in S}

TitleA == [text |-> <<" ", "A", " ">>, a |-> Some(<<"/", "1">>)]
TitleB == [text |-> <<"B">>, a |-> Some(<<"/", "2">>)]
TitleNoLink == [text |-> <<"C">>, a |-> None]

T_Region == <<"R","e","g","i","o","n"," ","A","s","s","i","g","n","e","d",":">>
T_Status == <<"S","t","a","t","u","s",":">>
RegionTails == {<<" ","0","5",","," ","B","r","o","o","k","l","y","n",","," ","N","Y">>,
                <<" ","0","5">>,
                <<" ",","," ","N","Y">>}
StatusTails == {<<" ","O","p","e","n">>,
                <<" ","C","l","o","s","e","d"," ","o","n"," ","0","1","/","0","5","/","2","0","1","8">>,
                <<" ","C","l","o","s","e","d"," ","o","n"," ","s","o","o","n">>}
Labels == {[text |-> T_Region, tail |-> t] : t \in RegionTails}
          \cup {[text |-> T_Status, tail |-> t] : t \in StatusTails}

\* list items given to parse_case_list_li directly
LiInputs == {[title |-> t, labels |-> l] :
                t \in {None, Some(TitleA), Some(TitleB), Some(TitleNoLink)},
                l \in SeqsUpTo(Labels, MaxLabels)}

\* list items of the listing pages the orchestrator fetches
PageItems == {[title |-> t, labels |-> <<>>] : t \in {None, Some(TitleA), Some(TitleB)}}
PageDocs == SeqsUpTo(PageItems, MaxItems)

\* a listing response: the text of its pagination widget and its list items
ListingResponse(pager, lis) == [pager |-> pager, lis |-> lis]

Dates == {[year |-> 2017, month |-> m, day |-> d] : m \in {1, 8, 12}, d \in {1, 24}}
D_2017_01_01 == [year |-> 2017, month |-> 1, day |-> 1]
D_2017_08_24 == [year |-> 2017, month |-> 8, day |-> 24]
Companies == {<<>>, <<"A", " ", "B">>, <<"a", "/", "b", "?", "c">>}

SessionArgs == {None, Some(0)}     \* session 0 is the caller's own

UrlArgs == [dates : {None} \cup {Some(<<a, b>>) : a \in Dates, b \in Dates},
            company : {None} \cup {Some(c) : c \in Companies},
            page_number : {None} \cup {Some(n) : n \in {0, 1, 2, 10}}]
LiArgs == [li : LiInputs]
PageCountArgs == [url : {get_case_list_url(None, None, None)}, session : SessionArgs]
CaseListArgs ==
    {[dates |-> None, company |-> None, session |-> s] : s \in SessionArgs}
    \cup {[dates |-> Some(<<D_2017_01_01, D_2017_08_24>>), company |-> Some(<<"A", " ", "B">>),
            session |-> s] : s \in SessionArgs}
CaseArgs == [case_id : {<<"0", "1", "-", "C", "A", "-", "1">>}, session : SessionArgs]

\* a case page: the text next to each label that is present, the tables of
\* the two table containers and the texts of the allegations container
LabelClasses == {"case", "city", "date-filed", "dispute-region", "status"}
DocketTable == << <<"d", "1">> >>
PartyTable == << <<"p", "1">> >>
CaseDocs == [labels : [LabelClasses -> {None, Some(<<"x">>)}],
             close : {None, Some(<<"w">>)},
             docket : {None, Some(<<>>), Some(<<DocketTable>>)},
             allegations : {None, Some(<<>>), Some(<< <<"8", "a">> >>)},
             participants : {None, Some(<<>>), Some(<<PartyTable>>)}]

(***************************************************************************)
(* The HTTP and sleep history.                                             *)
(***************************************************************************)
\* session.get(url) through session s: ok with the response body, or raising
GetEv(s, url, page, ok, resp) ==
    [ev |-> "get", session |-> s, url |-> url, page |-> page, ok |-> ok, resp |-> resp]
\* time.sleep(secs)
SleepEv(secs) == [ev |-> "sleep", secs |-> secs]

Unbound == <<>>      \* a local that no assignment has reached
NoFields == [k \in {} |-> None]

listLocals == <<max_page_count, page_number, cases>>
caseLocals == <<case_docket_df, case_party_df, allegation_list, fields>>

InitLocals ==
    /\ pc = "call" /\ ret = NoRet
    /\ session = None /\ gpc_session = None /\ created = 0
    /\ trace = <<>> /\ buffer = None
    /\ max_page_count = 0 /\ page_number = 0 /\ cases = <<>>
    /\ case_docket_df = Unbound /\ case_party_df = Unbound
    /\ allegation_list = <<>> /\ fields = NoFields

\* the caller invokes one of the module's functions
Init ==
    /\ \/ op = "get_case_list_url" /\ args \in UrlArgs
       \/ op = "parse_case_list_li" /\ args \in LiArgs
       \/ op = "get_page_count" /\ args \in PageCountArgs
       \/ op = "get_case_list" /\ args \in CaseListArgs
       \/ op = "get_case" /\ args \in CaseArgs
    /\ InitLocals

Raise(e) == pc' = "raised" /\ ret' = Raised(e)
Return(v) == pc' = "returned" /\ ret' = Returned(v)

(***************************************************************************)
(* The pure functions, called directly.                                    *)
(***************************************************************************)
GetCaseListUrl ==
    /\ op = "get_case_list_url" /\ pc = "call"
    /\ Return(get_case_list_url(args.dates, args.company, args.page_number))
    /\ UNCHANGED <<op, args, session, gpc_session, created, trace, buffer,
                   listLocals, caseLocals>>

ParseCaseListLi ==
    /\ op = "parse_case_list_li" /\ pc = "call"
    /\ pc' = (IF parse_case_list_li(args.li).kind = "raise" THEN "raised" ELSE "returned")
    /\ ret' = parse_case_list_li(args.li)
    /\ UNCHANGED <<op, args, session, gpc_session, created, trace, buffer,
                   listLocals, caseLocals>>

(***************************************************************************)
(* get_page_count, called directly or from get_case_list                   *)
(***************************************************************************)
\* the arguments of the running get_page_count call: the caller's, or those
\* of line 173, get_page_count(initial_url), which passes no session
PageCountCall ==
    IF op = "get_page_count" THEN [url |-> args.url, session |-> args.session]
    ELSE [url |-> get_case_list_url(args.dates, args.company, Some(0)), session |-> None]

\* the response texts the site answers the page-count fetch with; under
\* get_case_list only those whose page count keeps the loop within MaxPages
PagerAnswers ==
    IF op = "get_page_count" THEN PagerTexts
    ELSE {b \in PagerTexts : ScanPageCount(b).kind = "return" => ScanPageCount(b).val <= MaxPages}

\* lines 70-77
GetPageCountFetch ==
    /\ \/ op = "get_page_count" /\ pc = "call"
       \/ op = "get_case_list" /\ pc = "page_count"
    /\ LET fresh == ~TruthyObj(PageCountCall.session)
           s == IF fresh THEN created + 1 ELSE PageCountCall.session[1] IN
       /\ gpc_session' = Some(s)
       /\ created' = (IF fresh THEN created + 1 ELSE created)
       /\ \/ /\ trace' = Append(trace, GetEv(s, PageCountCall.url, None, FALSE, None))
             /\ Raise("ConnectionError")
             /\ UNCHANGED buffer
          \/ \E b \in PagerAnswers :
             /\ buffer' = Some(ListingResponse(b, <<>>))
             /\ trace' = trace \o <<GetEv(s, PageCountCall.url, None, TRUE,
                                         Some(ListingResponse(b, <<>>))),
                                    SleepEv(SLEEP_INTERVAL)>>
             /\ pc' = "scan"
             /\ UNCHANGED ret
    /\ UNCHANGED <<op, args, session, listLocals, caseLocals>>

\* lines 79-93, and the assignment of line 173 when get_case_list called
GetPageCountScan ==
    /\ pc = "scan"
    /\ LET r == ScanPageCount(buffer[1].pager) IN
       \/ /\ r.kind = "raise"
          /\ Raise(r.val)
          /\ UNCHANGED listLocals
       \/ /\ r.kind = "return" /\ op = "get_page_count"
          /\ Return(r.val)
          /\ UNCHANGED listLocals
       \/ /\ r.kind = "return" /\ op = "get_case_list"
          /\ max_page_count' = r.val
          /\ page_number' = 0
          /\ pc' = "loop"
          /\ UNCHANGED <<ret, cases>>
    /\ UNCHANGED <<op, args, session, gpc_session, created, trace, buffer, caseLocals>>

(***************************************************************************)
(* get_case_list                                                           *)
(***************************************************************************)
\* lines 164-172
GetCaseListCall ==
    /\ op = "get_case_list" /\ pc = "call"
    /\ session' = (IF TruthyObj(args.session) THEN args.session ELSE Some(created + 1))
    /\ created' = (IF TruthyObj(args.session) THEN created ELSE created + 1)
    /\ cases' = <<>>
    /\ pc' = "page_count"
    /\ UNCHANGED <<op, args, ret, gpc_session, trace, buffer, max_page_count,
                   page_number, caseLocals>>

\* a range that includes its stop, which range(0, stop) must differ from
InRangeInclusive(i, stop) == i <= stop

\* line 176: whether i is produced by range(0, stop)
InRange(i, stop) == 0 <= i /\ i < stop

\* lines 176-179
GetCaseListFetch ==
    /\ op = "get_case_list" /\ pc = "loop"
    /\ InRange(page_number, max_page_count)
    /\ LET page_url == get_case_list_url(args.dates, args.company, Some(page_number)) IN
       \/ /\ trace' = Append(trace, GetEv(session[1], page_url, Some(page_number), FALSE, None))
          /\ Raise("ConnectionError")
          /\ UNCHANGED buffer
       \/ \E lis \in PageDocs :
          /\ buffer' = Some(ListingResponse(<<>>, lis))
          /\ trace' = Append(trace, GetEv(session[1], page_url, Some(page_number), TRUE,
                                          Some(ListingResponse(<<>>, lis))))
          /\ pc' = "parse"
          /\ UNCHANGED ret
    /\ UNCHANGED <<op, args, session, gpc_session, created, listLocals, caseLocals>>

\* a loop body that skips a page whose parse raises and goes on, which the
\* loop body must differ from
GetCaseListParseSkipping ==
    /\ op = "get_case_list" /\ pc = "parse"
    /\ LET r == parse_case_list(buffer[1].lis) IN
       /\ cases' = (IF r.kind = "raise" THEN cases ELSE cases \o r.val)
       /\ trace' = Append(trace, SleepEv(SLEEP_INTERVAL))
       /\ page_number' = page_number + 1
       /\ pc' = "loop"
       /\ UNCHANGED ret
    /\ UNCHANGED <<op, args, session, gpc_session, created, buffer, max_page_count,
                   caseLocals>>

\* lines 182-183, and the loop's step to the next page
GetCaseListParse ==
    /\ op = "get_case_list" /\ pc = "parse"
    /\ LET r == parse_case_list(buffer[1].lis) IN
       \/ /\ r.kind = "raise"
          /\ Raise(r.val)
          /\ UNCHANGED <<trace, page_number, cases>>
       \/ /\ r.kind = "return"
          /\ cases' = cases \o r.val
          /\ trace' = Append(trace, SleepEv(SLEEP_INTERVAL))
          /\ page_number' = page_number + 1
          /\ pc' = "loop"
          /\ UNCHANGED ret
    /\ UNCHANGED <<op, args, session, gpc_session, created, buffer, max_page_count,
                   caseLocals>>

\* line 186
GetCaseListReturn ==
    /\ op = "get_case_list" /\ pc = "loop"
    /\ ~InRange(page_number, max_page_count)
    /\ Return(cases)
    /\ UNCHANGED <<op, args, session, gpc_session, created, trace, buffer,
                   listLocals, caseLocals>>

(***************************************************************************)
(* get_case                                                                *)
(***************************************************************************)
\* pandas.DataFrame(): the empty table
EmptyFrame == [rows |-> <<>>]

\* pandas.read_html(markup).pop(): the last table of the markup as a frame,
\* ValueError when the markup holds no table
read_html_pop(tables) ==
    IF tables = <<>> THEN Raised("ValueError")
    ELSE Returned([rows |-> tables[Len(tables)]])

CaseUrl(case_id) == BASE_URL \o <<"/", "c", "a", "s", "e", "/">> \o case_id

\* lines 196-203
GetCaseFetch ==
    /\ op = "get_case" /\ pc = "call"
    /\ LET fresh == ~TruthyObj(args.session)
           s == IF fresh THEN created + 1 ELSE args.session[1] IN
       /\ session' = Some(s)
       /\ created' = (IF fresh THEN created + 1 ELSE created)
       /\ \/ /\ trace' = Append(trace, GetEv(s, CaseUrl(args.case_id), None, FALSE, None))
             /\ Raise("ConnectionError")
             /\ UNCHANGED buffer
          \/ \E doc \in CaseDocs :
             /\ buffer' = Some(doc)
             /\ trace' = Append(trace, GetEv(s, CaseUrl(args.case_id), None, TRUE, Some(doc)))
             /\ pc' = "fields"
             /\ UNCHANGED ret
    /\ UNCHANGED <<op, args, gpc_session, listLocals, caseLocals>>

\* lines 205-225: find_class(...).pop() raises IndexError for a missing
\* label; only the close-method lookup catches it
GetCaseFields ==
    /\ op = "get_case" /\ pc = "fields"
    /\ LET doc == buffer[1] IN
       \/ /\ \E c \in LabelClasses : doc.labels[c] = None
          /\ Raise("IndexError")
          /\ UNCHANGED fields
       \/ /\ \A c \in LabelClasses : doc.labels[c] # None
          /\ fields' = [case_number |-> doc.labels["case"][1],
                        city |-> doc.labels["city"][1],
                        date_filed |-> doc.labels["date-filed"][1],
                        region |-> doc.labels["dispute-region"][1],
                        status |-> doc.labels["status"][1],
                        close_reason |-> doc.close]
          /\ pc' = "docket"
          /\ UNCHANGED ret
    /\ UNCHANGED <<op, args, session, gpc_session, created, trace, buffer, listLocals,
                   case_docket_df, case_party_df, allegation_list>>

\* lines 227-232
GetCaseDocket ==
    /\ op = "get_case" /\ pc = "docket"
    /\ LET doc == buffer[1] IN
       \/ /\ doc.docket = None
          /\ Raise("IndexError")
          /\ UNCHANGED case_docket_df
       \/ /\ doc.docket # None
          /\ case_docket_df' = (IF read_html_pop(doc.docket[1]).kind = "raise"
                                THEN Some(EmptyFrame)
                                ELSE Some(read_html_pop(doc.docket[1]).val))
          /\ pc' = "allegations"
          /\ UNCHANGED ret
    /\ UNCHANGED <<op, args, session, gpc_session, created, trace, buffer, listLocals,
                   case_party_df, allegation_list, fields>>

\* lines 234-241
GetCaseAllegations ==
    /\ op = "get_case" /\ pc = "allegations"
    /\ allegation_list' = (IF buffer[1].allegations = None THEN <<>>
                           ELSE buffer[1].allegations[1])
    /\ pc' = "participants"
    /\ UNCHANGED <<op, args, ret, session, gpc_session, created, trace, buffer, listLocals,
                   case_docket_df, case_party_df, fields>>

\* lines 243-248: the except branch assigns case_docket_df, not case_party_df
GetCaseParticipants ==
    /\ op = "get_case" /\ pc = "participants"
    /\ LET doc == buffer[1] IN
       \/ /\ doc.participants = None
          /\ Raise("IndexError")
          /\ UNCHANGED <<case_docket_df, case_party_df>>
       \/ /\ doc.participants # None
          /\ read_html_pop(doc.participants[1]).kind = "return"
          /\ case_party_df' = Some(read_html_pop(doc.participants[1]).val)
          /\ pc' = "return"
          /\ UNCHANGED <<ret, case_docket_df>>
       \/ /\ doc.participants # None
          /\ read_html_pop(doc.participants[1]).kind = "raise"
          /\ case_docket_df' = Some(EmptyFrame)
          /\ pc' = "return"
          /\ UNCHANGED <<ret, case_party_df>>
    /\ UNCHANGED <<op, args, session, gpc_session, created, trace, buffer, listLocals,
                   allegation_list, fields>>

\* lines 250-259: reading a local that was never assigned is an
\* UnboundLocalError
GetCaseReturn ==
    /\ op = "get_case" /\ pc = "return"
    /\ \/ /\ case_party_df = Unbound
          /\ Raise("UnboundLocalError")
       \/ /\ case_party_df # Unbound
          /\ Return([case_number |-> fields.case_number,
                     city |-> fields.city,
                     date_filed |-> fields.date_filed,
                     region |-> fields.region,
                     status |-> fields.status,
                     close_reason |-> fields.close_reason,
                     docket |-> case_docket_df[1],
                     allegations |-> allegation_list,
                     participants |-> case_party_df[1]])
    /\ UNCHANGED <<op, args, session, gpc_session, created, trace, buffer, listLocals,
                   caseLocals>>

Next ==
    \/ GetCaseListUrl
    \/ ParseCaseListLi
    \/ GetPageCountFetch
    \/ GetPageCountScan
    \/ GetCaseListCall
    \/ GetCaseListFetch
    \/ GetCaseListParse
    \/ GetCaseListReturn
    \/ GetCaseFetch
    \/ GetCaseFields
    \/ GetCaseDocket
    \/ GetCaseAllegations
    \/ GetCaseParticipants
    \/ GetCaseReturn

Spec == Init /\ [][Next]_vars

(***************************************************************************)
(* Properties.                                                             *)
(***************************************************************************)
IsGet(e) == e.ev = "get"
IsLoopGet(e) == e.ev = "get" /\ e.page # None
Gets == SelectSeq(trace, IsGet)
LoopGets == SelectSeq(trace, IsLoopGet)

\* the text the page-count fetch was answered with
PagerOf(e) == e.resp[1].pager
ItemsOf(e) == e.resp[1].lis

\* the part of a URL from its first "?" on
QueryPortion(url) == SliceFrom(url, find(url, <<"?">>))
EndsWith(s, suffix) ==
    Len(s) >= Len(suffix) /\ SubSeq(s, Len(s) - Len(suffix) + 1, Len(s)) = suffix
Contains(s, sub) == Occurrences(s, sub) # {}

\* C1: get_case_list fetches the listing pages 0, 1, ..., N-1 in this order,
\* each once, N being the page count the page-count fetch yields, and returns
\* the parsed items of page 0, then of page 1, ..., then of page N-1.
C1_PagesInOrderAndConcatenated ==
    op = "get_case_list" =>
        /\ \A k \in 1..Len(LoopGets) :
              /\ LoopGets[k].page = Some(k - 1)
              /\ LoopGets[k].url = get_case_list_url(args.dates, args.company, Some(k - 1))
        /\ pc = "returned" =>
              LET N == ScanPageCount(PagerOf(Gets[1])).val IN
              /\ Len(LoopGets) = N
              /\ \A k \in 1..N : LoopGets[k].ok
              /\ ret.kind = "return"
              /\ ret.val = Concat([k \in 1..N |-> parse_case_list(ItemsOf(LoopGets[k])).val])
              /\ Len(ret.val) = Len(Concat([k \in 1..N |-> ItemsOf(LoopGets[k])]))

\* a two-page listing, two items on page 0 and one on page 1, was returned
C1_Witness ==
    /\ op = "get_case_list" /\ pc = "returned"
    /\ Len(LoopGets) = 2
    /\ Len(ItemsOf(LoopGets[1])) = 2 /\ Len(ItemsOf(LoopGets[2])) = 1
    /\ Len(ret.val) = 3
    /\ ret.val[1][K_title] # ret.val[2][K_title]

\* C2: with a session passed to get_case_list, every GET of the call goes
\* through that session and no other session is created.
C2_SuppliedSessionOnly ==
    (op = "get_case_list" /\ args.session # None) =>
        /\ created = 0
        /\ \A i \in 1..Len(Gets) : Gets[i].session = args.session[1]

\* C3: in get_page_count, get_case_list and get_case every successful GET is
\* followed by exactly one sleep of SLEEP_INTERVAL before the next GET and
\* before the operation returns.
C3_SleepAfterEveryFetch ==
    op \in {"get_page_count", "get_case_list", "get_case"} =>
        \A i \in 1..Len(trace) :
            (IsGet(trace[i]) /\ trace[i].ok) =>
                /\ pc = "returned" => i < Len(trace)
                /\ i < Len(trace) =>
                      /\ trace[i + 1].ev = "sleep"
                      /\ trace[i + 1].secs = SLEEP_INTERVAL
                /\ i + 1 < Len(trace) => trace[i + 2].ev # "sleep"

\* the digits that follow position start, up to the first non-digit or the
\* end of the text
RECURSIVE DigitRun(_, _)
DigitRun(buf, start) ==
    IF start < Len(buf) /\ buf[start + 1] \in string_digits
    THEN <<buf[start + 1]>> \o DigitRun(buf, start + 1)
    ELSE <<>>

\* C4: get_page_count returns 1 for a text without "?page=", and otherwise
\* the value of the digits that follow the last "?page=", the digits ending
\* at the first non-digit or at the end of the text.
C4_PageCountOfText ==
    (op = "get_page_count" /\ pc \in {"returned", "raised"} /\ Gets[1].ok) =>
        LET buf == PagerOf(Gets[1]) IN
        IF ~Contains(buf, PAGE_MARKER)
        THEN ret.kind = "return" /\ ret.val = 1
        ELSE LET run == DigitRun(buf, rfind(buf, PAGE_MARKER) + Len(PAGE_MARKER)) IN
             run # <<>> => (ret.kind = "return" /\ ret.val = DecimalValue(run))

\* C5: the URL built for a page number n >= 0, n = 0 included, ends with
\* the parameter page=<n>, after any date filter; without a page number the
\* URL has no page parameter.
C5_PageParameter ==
    (op = "get_case_list_url" /\ pc = "returned") =>
        IF args.page_number # None
        THEN EndsWith(QueryPortion(ret.val),
                      <<"p", "a", "g", "e", "=">> \o str(args.page_number[1]))
        ELSE ~Contains(QueryPortion(ret.val), <<"p", "a", "g", "e", "=">>)

C6_Case ==
    /\ op = "get_case_list_url" /\ pc = "returned"
    /\ args.dates = Some(<<D_2017_01_01, D_2017_08_24>>)
    /\ args.company = None /\ args.page_number = None

\* C6 as stated: for dates (2017-01-01, 2017-08-24), no company and no page
\* number the query portion is ?&f[0]=date%3A01%2F01%2F2017%20to%2008%2F24%2F2017,
\* the slashes of the dates percent-encoded.
C6_SlashesEncoded ==
    C6_Case => QueryPortion(ret.val) =
        <<"?","&","f","[","0","]","=","d","a","t","e","%","3","A","0","1","%","2","F","0","1","%","2","F","2","0","1","7","%","2","0","t","o","%","2","0","0","8","%","2","F","2","4","%","2","F","2","0","1","7">>

\* C6, amended: for dates (2017-01-01, 2017-08-24), no company and no page
\* number the query portion is ?&f[0]=date%3A01/01/2017%20to%2008/24/2017:
\* the colon and the spaces are percent-encoded, the slashes of the dates
\* are not.
C6_SlashesLiteral ==
    C6_Case => QueryPortion(ret.val) =
        <<"?","&","f","[","0","]","=","d","a","t","e","%","3","A","0","1","/","0","1","/","2","0","1","7","%","2","0","t","o","%","2","0","0","8","/","2","4","/","2","0","1","7">>

C6_Witness == C6_Case /\ Contains(ret.val, <<"%", "2", "0", "t", "o", "%", "2", "0">>)

\* C7: in get_case a table without parseable rows gives an empty table for
\* its own field only, and never an error: on a page that has every label
\* and both table containers, get_case returns a record whose docket and
\* participants are each the parsed table, or empty when it has no rows.
C7_IndependentFallback ==
    (/\ op = "get_case" /\ pc \in {"returned", "raised"} /\ Gets[1].ok
     /\ \A c \in LabelClasses : Gets[1].resp[1].labels[c] # None
     /\ Gets[1].resp[1].docket # None
     /\ Gets[1].resp[1].participants # None) =>
        LET doc == Gets[1].resp[1] IN
        /\ ret.kind = "return"
        /\ ret.val.docket = (IF doc.docket[1] = <<>> THEN EmptyFrame
                             ELSE [rows |-> doc.docket[1][Len(doc.docket[1])]])
        /\ ret.val.participants = (IF doc.participants[1] = <<>> THEN EmptyFrame
                                   ELSE [rows |-> doc.participants[1][Len(doc.participants[1])]])

\* C8: region_number and region_city are in the summary only when a
\* region_assigned field was captured and holds a comma; they are then the
\* trimmed texts before and after its first comma.
C8_RegionKeysOnlyWhenWellFormed ==
    (op = "parse_case_list_li" /\ pc = "returned") =>
        LET d == ret.val
            wellFormed == /\ K_region_assigned \in DOMAIN d
                          /\ Contains(d[K_region_assigned], <<",">>) IN
        /\ (K_region_number \in DOMAIN d \/ K_region_city \in DOMAIN d) => wellFormed
        /\ wellFormed =>
              LET r == d[K_region_assigned]
                  comma == find(r, <<",">>) IN
              /\ K_region_number \in DOMAIN d /\ K_region_city \in DOMAIN d
              /\ d[K_region_number] = strip(SubSeq(r, 1, comma))
              /\ d[K_region_city] = strip(SubSeq(r, comma + 2, Len(r)))

\* a step of get_case_list that fails: a fetch that raises, a page-count
\* response whose scan raises, a listing response whose parse raises
FailedStep(e) ==
    /\ IsGet(e)
    /\ \/ ~e.ok
       \/ e.ok /\ e.page = None /\ ScanPageCount(PagerOf(e)).kind = "raise"
       \/ e.ok /\ e.page # None /\ parse_case_list(ItemsOf(e)).kind = "raise"

\* C9: once a step of get_case_list has failed (the page-count fetch, the
\* fetch of page k or the parse of page k), nothing is fetched or retried
\* after it and the call does not return a list: it raises.
C9_FailureAborts ==
    op = "get_case_list" =>
        /\ \A i \in 1..Len(trace) :
              FailedStep(trace[i]) =>
                  /\ \A j \in (i + 1)..Len(trace) : ~IsGet(trace[j])
                  /\ ret.kind # "return"
                  /\ pc \in {"scan", "parse", "raised"}
        /\ pc = "raised" => (ret.kind = "raise" /\ FailedStep(Gets[Len(Gets)]))
        /\ pc = "returned" => ret.kind = "return"

\* the parse of page 1 failed after page 0 had given its items
C9_Witness ==
    /\ op = "get_case_list" /\ pc = "raised"
    /\ ret.val = "IndexError"
    /\ Len(LoopGets) = 2 /\ LoopGets[2].ok
    /\ cases # <<>>

\* C10: when the last "?page=" link of the page-0 listing carries index N,
\* a get_case_list call that returns has fetched the listing page N.
C10_LastLinkedPageFetched ==
    (/\ op = "get_case_list" /\ pc = "returned"
     /\ Contains(PagerOf(Gets[1]), PAGE_MARKER)) =>
        \E k \in 1..Len(LoopGets) :
            /\ LoopGets[k].ok
            /\ LoopGets[k].page = Some(ScanPageCount(PagerOf(Gets[1])).val)


=============================================================================
